---- MODULE Spec2Model ----
(***************************************************************************)
(* Model of the pump.fun buyback bot: the scheduler of src/index.ts, the   *)
(* cycle of BuybackService.executeAutomaticBuyback, the relay-built claim  *)
(* and buy of PumpFunService, and the on-chain state they read and write.  *)
(*                                                                         *)
(* Amounts: the code holds SOL amounts as floating point numbers of SOL.   *)
(* The model holds every SOL amount as the integer number of lamports it   *)
(* stands for (1 SOL = 10^9 lamports), so 0.001 SOL is 1000000.            *)
(***************************************************************************)
EXTENDS Integers, Sequences, FiniteSets, TLC

\* ---------------------------------------------------------------- bounds
\* Number of cycles the scheduler starts in one behaviour (initial + cron).
MaxCycles == 3
\* Number of calls of the relay buy (buyTokens) in one behaviour.
MaxBuyCalls == 1

\* ------------------------------------------------------ program constants
\* getClaimableFees: "return -1" (SOL) when the estimate is unknown.
Sentinel == -1000000000
\* executeAutomaticBuyback: "claimableFees >= 0.001".
ClaimThreshold == 1000000
\* runBuybackCycle: "result.claimedSol >= 0.01".
StatsThreshold == 10000000
\* claimFees of the direct-construction service: "claimableSol < 0.001".
DirectClaimThreshold == 1000000

\* ------------------------------------------------------------ input sets
\* Values of MIN_BUYBACK_AMOUNT (config.ts:64; default 0.01 SOL).
MinBuybackAmounts == {0, 10000000, 100000000}
\* "claimable" numbers the fee-estimate API may answer, in lamports.
EstimateValues == {0, 50000000}
\* Creator fees a confirmed claim may move into the wallet, in lamports
\* (0: the vault was empty).
FeeValues == {0, 30000000}
\* Wallet balance when the bot starts.
InitBalances == {100000000}
\* Amounts a caller passes to buyTokens.
BuyAmounts == {50000000}
\* Inputs of the quote of executeBuyback (lines 84-85). BigInt arithmetic is
\* exact at every magnitude, as the integers here are; the values are small
\* enough for the products to be computed by the model checker.
\*   solLamports of calculateBuyAmount:
SolInValues == {0, 1, 30, 1000}
\*   virtualTokenReserves, virtualSolReserves (unsigned fields of the curve):
ReserveValues == {0, 1, 30, 107300}
\*   config.slippageBps (parseInt of SLIPPAGE_BPS, default 500; no range check):
SlippageValues == {0, 1, 500, 9999, 10000, 10001, 20000}

\* The cron callbacks the model lets run at once: two are what it takes for
\* cycles to overlap.
Slots == {1, 2}

Max(a, b) == IF a >= b THEN a ELSE b

VARIABLES
  minBuybackAmount, \* config.minBuybackAmount
  mainPc,           \* position of main(): "initial", "scheduled"
  started,          \* number of cycles started so far
  cyc,              \* per slot: the cycle running in it (locals + position)
  stats,            \* index.ts stats
  balance,          \* on-chain lamports of the wallet
  curve,            \* curve account: "active", "complete", "absent"
  ataExists,        \* buyer's associated token account exists
  bt,               \* a direct caller of PumpFunService.buyTokens
  quote,            \* the quote and the buy instruction of one executeBuyback
  dec,              \* one read of the curve account by getBondingCurveData
  dc,               \* one claimFees call of the direct-construction service
  env,              \* the environment loadConfig reads, and what it made of it
  tx,               \* the calls of WalletManager.sendTransaction looked at alone
  blockhash         \* the latest blockhash of the chain

vars == <<minBuybackAmount, mainPc, started, cyc, stats, balance,
          curve, ataExists, bt, quote, dec, dc, env, tx, blockhash>>

chainVars == <<balance, curve, ataExists>>

\* ------------------------------------------------------------ pure parts

\* PumpFunService.getClaimableFees: the value returned for an API outcome.
\* resp.kind: "number" (data.claimable is a number), "other" (a response
\* without a numeric claimable), "error" (the GET threw).
getClaimableFees(resp) ==
  IF resp.kind = "number" THEN resp.claimable ELSE Sentinel

\* executeAutomaticBuyback step 3 guard: "if (claimableFees >= 0.001)".
ShouldClaim(claimableFees) == claimableFees >= ClaimThreshold

\* executeAutomaticBuyback: totalBuybackAmount after the claim returned.
TotalAfterClaim(claimableFees, claimTx) ==
  IF claimTx.isNull THEN 0 ELSE claimableFees

\* executeAutomaticBuyback step 4 guard: "totalBuybackAmount < minBuybackAmount".
Insufficient(totalBuybackAmount, minAmount) == totalBuybackAmount < minAmount

\* An amount that is the difference of the two reads as it is.
ClaimedAmountSigned(balanceBefore, balanceAfter) ==
  balanceAfter - balanceBefore

\* claimFees: amount reported from the two balance reads.
ClaimedAmount(balanceBefore, balanceAfter) ==
  Max(0, balanceAfter - balanceBefore)

\* PumpFunService.getBondingCurveData on the outcome of getAccountInfo:
\* "error" (the read threw), "absent", else the account's complete flag.
NullData == [isNull |-> TRUE, complete |-> FALSE]
getBondingCurveData(read) ==
  IF read \in {"error", "absent"} THEN NullData
  ELSE [isNull |-> FALSE, complete |-> (read = "complete")]

\* PumpFunService.hasGraduated.
hasGraduated(read) ==
  LET curveData == getBondingCurveData(read)
  IN IF curveData.isNull THEN TRUE ELSE curveData.complete

\* What a read of the curve account can give in the current chain state.
CurveReads(cv) == {cv, "error"}

Migrated(cv) == cv \in {"complete", "absent"}

NullClaim == [isNull |-> TRUE, signature |-> "null", amount |-> 0]

\* The locals of one relay submission (claimFees, buyTokens):
\*   balBefore: balanceBefore (claimFees only);
\*   vRejected: the versioned transaction was built and signed and the
\*              network rejected its transmission;
\*   sends:     transmissions made so far;
\*   sentAt:    the state of the curve at the last transmission;
\*   conf:      the wait for the confirmation of the signature has resolved.
NoSubmit ==
  [balBefore |-> 0, vRejected |-> FALSE, sends |-> 0, sentAt |-> "none",
   conf |-> FALSE]

\* ----------------------------------------------------------------- state

\* A slot's cycle: position, the locals of executeAutomaticBuyback, claimFees
\* and executeBuyback, and a record of what the cycle did.
\*   initial: the cycle main awaits before it schedules the recurring ones;
\*   est, total, claimTx: claimableFees, totalBuybackAmount, claimTx;
\*   claimCalled: claimFees was called in this cycle;
\*   sub: the locals of the claimFees call in progress (see NoSubmit);
\*   bbKind: the path on which executeBuyback returned ("none": not called);
\*   lateSend: executeBuyback transmitted a transaction at a moment the
\*           curve was Migrated;
\*   claimedSol, buybackTx: the result of executeAutomaticBuyback;
\*   curveData: the snapshot executeBuyback prices its buy from;
\*   credited: the lamports the chain paid into the wallet when it executed
\*           the claim transaction of this cycle;
\*   ataCreated: getOrCreateTokenAccount sent a create transaction in this
\*           cycle and it was confirmed.
IdleCycle ==
  [pc |-> "idle", initial |-> FALSE, est |-> 0, claimCalled |-> FALSE,
   sub |-> NoSubmit, claimTx |-> NullClaim, total |-> 0, bbKind |-> "none",
   lateSend |-> FALSE, claimedSol |-> 0, buybackTx |-> "null",
   curveData |-> NullData, credited |-> 0, ataCreated |-> FALSE]

IdleBt ==
  [pc |-> "idle", calls |-> 0, amount |-> 0, sub |-> NoSubmit, ret |-> "null"]

\* No quote in progress.
NoQuote ==
  [pc |-> "none", solIn |-> 0, virtualTokenReserves |-> 0,
   virtualSolReserves |-> 0, slippageBps |-> 0, expectedTokens |-> 0,
   minTokens |-> 0,
   instruction |-> [programId |-> "none", keys |-> <<>>, data |-> <<>>]]

BotInit ==
  /\ minBuybackAmount \in MinBuybackAmounts
  /\ mainPc = "initial"
  /\ started = 0
  /\ cyc = [c \in Slots |-> IdleCycle]
  /\ stats = [totalClaimed |-> 0, totalBuybacks |-> 0,
              successfulBuybacks |-> 0, failedBuybacks |-> 0]
  /\ balance \in InitBalances
  /\ curve \in {"active", "complete", "absent"}
  /\ ataExists \in BOOLEAN
  /\ bt = IdleBt

\* BondingCurveData | null, as getBondingCurveData returns it.
NullCurve ==
  [isNull |-> TRUE, virtualTokenReserves |-> 0, virtualSolReserves |-> 0,
   realTokenReserves |-> 0, realSolReserves |-> 0, tokenTotalSupply |-> 0,
   complete |-> FALSE]

\* No read of the curve account in progress.
\*   kind, data: what getAccountInfo gives ("error": it throws; "absent":
\*               null; "data": an account with these bytes);
\*   known, flag: the field values and the flag byte the bytes were laid
\*               out from;
\*   result: what getBondingCurveData returned.
NoDecode ==
  [pc |-> "none", kind |-> "absent", data |-> <<>>,
   known |-> [virtualTokenReserves |-> 0, virtualSolReserves |-> 0,
              realTokenReserves |-> 0, realSolReserves |-> 0,
              tokenTotalSupply |-> 0],
   flag |-> 0, result |-> NullCurve]
\* No direct claim in progress.
\*   vault, rentExempt: the lamports of the creator vault and the rent-exempt
\*                      minimum, as the chain gives them;
\*   claimable: what getClaimableFees returned;
\*   instruction: the claim instruction built; ret: the value returned.
NoDirectClaim ==
  [pc |-> "none", vault |-> 0, rentExempt |-> 0, claimable |-> 0,
   instruction |-> [programId |-> "none", keys |-> <<>>, data |-> <<>>],
   ret |-> "null"]

\* A Transaction object not yet made.
NoTransaction == [id |-> 0, instructions |-> <<>>, recentBlockhash |-> 0]

\* No call of WalletManager.sendTransaction looked at alone.
\*   usePriorityFee: config.usePriorityFee;
\*   calls:        the calls made so far;
\*   instructions: the argument of the call in progress;
\*   transaction:  its local Transaction object (id: which object it is;
\*                 recentBlockhash 0: not set);
\*   cached:       the blockhash the last call fetched;
\*   log:          the transactions signed and transmitted so far, each with
\*                 the call's argument and the chain's latest blockhash at
\*                 the moment of the signature;
\*   ret:          what the last call returned ("threw": it threw).
NoTx ==
  [pc |-> "none", usePriorityFee |-> FALSE, calls |-> 0, instructions |-> <<>>,
   transaction |-> NoTransaction, cached |-> 0, log |-> <<>>, ret |-> "none"]

Num(v) == [nan |-> FALSE, v |-> v]
NaN == [nan |-> TRUE, v |-> 0]

\* The configuration is loaded; the environment is no longer looked at.
\*   rpcSet, key, mint: SOLANA_RPC_ENDPOINT is set; WALLET_PRIVATE_KEY and
\*              TOKEN_MINT_ADDRESS are "unset", "invalid" or "valid";
\*   SLIPPAGE_BPS, MIN_BUYBACK_AMOUNT: the characters of the variable,
\*              <<>> when it is unset or empty;
\*   config:    the BotConfig loadConfig returned (minBuybackAmount in
\*              lamports);
\*   warned:    main logged that the token has graduated.
NoEnv ==
  [pc |-> "none", rpcSet |-> TRUE, key |-> "valid", mint |-> "valid",
   SLIPPAGE_BPS |-> <<>>, MIN_BUYBACK_AMOUNT |-> <<>>,
   config |-> [slippageBps |-> NaN, minBuybackAmount |-> NaN],
   warned |-> FALSE]

\* The parts of the state that belong to the operations looked at alone.
Apart ==
  /\ quote = NoQuote /\ dec = NoDecode /\ dc = NoDirectClaim /\ env = NoEnv
  /\ tx = NoTx /\ blockhash = 1

Init == BotInit /\ Apart

InFlight == {c \in Slots : cyc[c].pc # "idle"}

FreeSlot == CHOOSE c \in Slots : cyc[c].pc = "idle"


\* ------------------------------------------------------- main (index.ts)

\* main: "Run initial buyback cycle" - runBuybackCycle is awaited.
StartInitialCycle ==
  /\ mainPc = "initial"
  /\ mainPc' = "awaitInitial"
  /\ started' = 1
  /\ cyc' = [cyc EXCEPT ![1] = [IdleCycle EXCEPT !.pc = "getBalance", !.initial = TRUE]]
  /\ UNCHANGED <<minBuybackAmount, tx, blockhash, stats, chainVars, bt, quote, dec, dc, env>>

\* cron.schedule callback: every tick calls runBuybackCycle; nothing in the
\* callback looks at whether an earlier cycle is still running.
CronTick ==
  /\ mainPc = "scheduled"
  /\ started < MaxCycles
  /\ \E c \in Slots : cyc[c].pc = "idle"
  /\ started' = started + 1
  /\ cyc' = [cyc EXCEPT ![FreeSlot] =
                [IdleCycle EXCEPT !.pc = "getBalance"]]
  /\ UNCHANGED <<minBuybackAmount, tx, blockhash, mainPc, stats, chainVars, bt, quote, dec, dc, env>>

\* The end of runBuybackCycle: the slot is free again, and main, which
\* awaited the initial cycle, goes on to schedule the recurring ones.
Finish(c) ==
  /\ cyc' = [cyc EXCEPT ![c] = IdleCycle]
  /\ mainPc' = IF cyc[c].initial THEN "scheduled" ELSE mainPc

\* runBuybackCycle, try block after executeAutomaticBuyback returned.
UpdatedStats(st, result) ==
  LET claimed == [st EXCEPT !.totalClaimed = @ + result.claimedSol]
  IN IF result.buybackTx # "null"
       THEN [claimed EXCEPT !.totalBuybacks = @ + 1,
                            !.successfulBuybacks = @ + 1]
       ELSE IF result.claimedSol >= StatsThreshold
         THEN [claimed EXCEPT !.totalBuybacks = @ + 1,
                              !.failedBuybacks = @ + 1]
         ELSE claimed

runBuybackCycle(c) ==
  /\ cyc[c].pc = "returned"
  /\ stats' = UpdatedStats(stats, [claimedSol |-> cyc[c].claimedSol,
                                   buybackTx |-> cyc[c].buybackTx])
  /\ Finish(c)
  /\ UNCHANGED <<minBuybackAmount, tx, blockhash, started, chainVars, bt, quote, dec, dc, env>>

\* A runBuybackCycle without its try/catch: the exception leaves the
\* function, and with it the callback or main that awaited it.
runBuybackCycleNoCatch(c) ==
  /\ cyc[c].pc = "threw"
  /\ cyc' = [cyc EXCEPT ![c].pc = "uncaught"]
  /\ mainPc' = IF cyc[c].initial THEN "exited" ELSE mainPc
  /\ UNCHANGED <<minBuybackAmount, tx, blockhash, started, stats, chainVars, bt, quote, dec, dc, env>>

\* runBuybackCycle, catch block.
runBuybackCycleCatch(c) ==
  /\ cyc[c].pc = "threw"
  /\ stats' = [stats EXCEPT !.failedBuybacks = @ + 1]
  /\ Finish(c)
  /\ UNCHANGED <<minBuybackAmount, tx, blockhash, started, chainVars, bt, quote, dec, dc, env>>

\* ------------------------------ executeAutomaticBuyback (buyback.ts 142-182)

Frame == UNCHANGED <<minBuybackAmount, tx, blockhash, mainPc, started, stats, bt, quote, dec, dc, env>>

\* Step 1: wallet.getBalance(). It is outside every try block of the cycle,
\* so a failed read leaves executeAutomaticBuyback as an exception.
GetBalance(c) ==
  /\ cyc[c].pc = "getBalance"
  /\ \E ok \in BOOLEAN :
       cyc' = [cyc EXCEPT ![c].pc = IF ok THEN "getFees" ELSE "threw"]
  /\ Frame /\ UNCHANGED chainVars

\* The answers of the fee-estimate API.
EstimateResponses ==
  [kind : {"number"}, claimable : EstimateValues]
    \cup {[kind |-> "other", claimable |-> 0], [kind |-> "error", claimable |-> 0]}


\* Step 4, which runs without a suspension after step 3: return below the
\* minimum, else step 5 calls executeBuyback with totalBuybackAmount.
Threshold(r) ==
  IF Insufficient(r.total, minBuybackAmount)
    THEN [r EXCEPT !.claimedSol = r.total, !.buybackTx = "null",
                   !.pc = "returned"]
    ELSE [r EXCEPT !.pc = "bb_hasGraduated"]

\* A cycle whose getClaimableFees lets the error of the GET through.
GetFeesThrows(c) ==
  /\ cyc[c].pc = "getFees"
  /\ \E resp \in EstimateResponses :
       LET claimableFees == getClaimableFees(resp)
           r == [cyc[c] EXCEPT !.est = claimableFees]
       IN cyc' = [cyc EXCEPT ![c] =
                    IF resp.kind = "error" THEN [cyc[c] EXCEPT !.pc = "threw"]
                    ELSE IF ShouldClaim(claimableFees)
                      THEN [r EXCEPT !.claimCalled = TRUE, !.pc = "cf_post"]
                      ELSE Threshold(r)]
  /\ Frame /\ UNCHANGED chainVars

\* Step 2 and the guard of step 3: the estimate decides whether claimFees
\* is called at all.
GetFees(c) ==
  /\ cyc[c].pc = "getFees"
  /\ \E resp \in EstimateResponses :
       LET claimableFees == getClaimableFees(resp)
           r == [cyc[c] EXCEPT !.est = claimableFees]
       IN cyc' = [cyc EXCEPT ![c] =
                    IF ShouldClaim(claimableFees)
                      THEN [r EXCEPT !.claimCalled = TRUE, !.pc = "cf_post"]
                      ELSE Threshold(r)]
  /\ Frame /\ UNCHANGED chainVars

\* A cycle that goes from a successful claim straight to step 4, without
\* the settling delay.
ClaimReturnedNoDelay(r, claimTx) ==
  Threshold([r EXCEPT !.claimTx = claimTx,
                      !.total = TotalAfterClaim(r.est, claimTx),
                      !.sub = NoSubmit])

\* claimFees returned claimTx to executeAutomaticBuyback (lines 161-166);
\* the locals of claimFees are gone. A claim that succeeded is followed by
\* the settling delay, a null claim goes straight to step 4.
ClaimReturnedFrom(r, claimTx) ==
  LET after == [r EXCEPT !.claimTx = claimTx,
                         !.total = TotalAfterClaim(r.est, claimTx),
                         !.sub = NoSubmit]
  IN IF claimTx.isNull THEN Threshold(after)
                       ELSE [after EXCEPT !.pc = "sleep"]

ClaimReturned(c, claimTx) ==
  cyc' = [cyc EXCEPT ![c] = ClaimReturnedFrom(cyc[c], claimTx)]

\* ------------------- relay submission (pumpfun.ts 151-166 and 230-245)

\* The inner try block: deserialize, sign and sendTransaction are all inside
\* it, so its catch runs when any of the three throws.
\*   "buildThrows": deserialize or sign threw, nothing was transmitted;
\*   "rejected":    built and signed, the network rejected the transmission;
\*   "accepted":    the network returned a signature.
SubmitOutcomes == {"buildThrows", "rejected", "accepted"}

\* Where control goes after the try block: on to the confirmation, or into
\* the catch block that makes the legacy attempt.
AfterVersioned(outcome) ==
  IF outcome = "accepted" THEN "confirm" ELSE "legacy"

\* Where control goes after the catch block: an exception in it leaves the
\* function through the outer catch.
AfterLegacy(outcome) ==
  IF outcome = "accepted" THEN "confirm" ELSE "fail"

\* The submission's locals after an attempt with the given outcome.
Attempted(sub, outcome, isVersioned) ==
  IF outcome = "buildThrows" THEN sub
  ELSE [sub EXCEPT !.vRejected = isVersioned /\ outcome = "rejected",
                   !.sends = @ + 1,
                   !.sentAt = curve]

\* ------------------------------------- claimFees (pumpfun.ts 119-192)

\* axios.post to the relay: an unsigned transaction, or an error (an HTTP
\* error such as "no fees", or no response); every error returns null.
ClaimPost(c) ==
  /\ cyc[c].pc = "cf_post"
  /\ \E ok \in BOOLEAN :
       IF ok THEN cyc' = [cyc EXCEPT ![c].pc = "cf_balBefore"]
             ELSE ClaimReturned(c, NullClaim)
  /\ Frame /\ UNCHANGED chainVars

\* balanceBefore = await connection.getBalance(...)
ClaimBalBefore(c) ==
  /\ cyc[c].pc = "cf_balBefore"
  /\ \E ok \in BOOLEAN :
       IF ok THEN cyc' = [cyc EXCEPT ![c].sub.balBefore = balance,
                                     ![c].pc = "cf_versioned"]
             ELSE ClaimReturned(c, NullClaim)
  /\ Frame /\ UNCHANGED chainVars

\* Inner try block (lines 151-157).
ClaimVersioned(c) ==
  /\ cyc[c].pc = "cf_versioned"
  /\ \E outcome \in SubmitOutcomes :
       cyc' = [cyc EXCEPT
         ![c].sub = Attempted(@, outcome, TRUE),
         ![c].pc = IF AfterVersioned(outcome) = "confirm"
                     THEN "cf_confirm" ELSE "cf_legacy"]
  /\ Frame /\ UNCHANGED chainVars

\* Inner catch block (lines 158-166): Transaction.from, sign,
\* sendRawTransaction. What throws here reaches the outer catch and
\* claimFees returns null.
ClaimLegacy(c) ==
  /\ cyc[c].pc = "cf_legacy"
  /\ \E outcome \in SubmitOutcomes :
       IF AfterLegacy(outcome) = "confirm"
         THEN cyc' = [cyc EXCEPT ![c].sub = Attempted(@, outcome, FALSE),
                                 ![c].pc = "cf_confirm"]
         ELSE ClaimReturned(c, NullClaim)
  /\ Frame /\ UNCHANGED chainVars

\* await connection.confirmTransaction(signature, 'confirmed'):
\*   "ok":    the claim executed, the vault's fees are in the wallet (the
\*            vault is the chain's: what it held is an input of the step);
\*   "err":   the call resolved for a transaction that failed on chain (the
\*            resolved value is not looked at);
\*   "throw": the wait failed, claimFees returns null.
ConfirmOutcomes == {"ok", "err", "throw"}

\* A claimFees in which a failed wait for the confirmation is not an error.
ClaimConfirmUnchecked(c) ==
  /\ cyc[c].pc = "cf_confirm"
  /\ \E outcome \in ConfirmOutcomes, fees \in FeeValues :
       LET paid == IF outcome = "ok" THEN fees ELSE 0
       IN /\ cyc' = [cyc EXCEPT ![c].sub.conf = (outcome # "throw"),
                                ![c].credited = paid,
                                ![c].pc = "cf_balAfter"]
          /\ balance' = balance + paid
  /\ Frame /\ UNCHANGED <<curve, ataExists>>

ClaimConfirm(c) ==
  /\ cyc[c].pc = "cf_confirm"
  /\ \E outcome \in ConfirmOutcomes, fees \in FeeValues :
       LET paid == IF outcome = "ok" THEN fees ELSE 0
       IN /\ IF outcome = "throw"
               THEN ClaimReturned(c, NullClaim)
               ELSE cyc' = [cyc EXCEPT ![c].sub.conf = TRUE,
                                      ![c].credited = paid,
                                      ![c].pc = "cf_balAfter"]
          /\ balance' = balance + paid
  /\ Frame /\ UNCHANGED <<curve, ataExists>>

\* balanceAfter, claimedAmount and the returned {signature, amount}.
ClaimBalAfter(c) ==
  /\ cyc[c].pc = "cf_balAfter"
  /\ \E ok \in BOOLEAN :
       IF ok
         THEN ClaimReturned(c, [isNull |-> FALSE, signature |-> "claimSig",
                  amount |-> ClaimedAmount(cyc[c].sub.balBefore, balance)])
         ELSE ClaimReturned(c, NullClaim)
  /\ Frame /\ UNCHANGED chainVars

\* await this.sleep(2000), then step 4.
Sleep(c) ==
  /\ cyc[c].pc = "sleep"
  /\ cyc' = [cyc EXCEPT ![c] = Threshold(cyc[c])]
  /\ Frame /\ UNCHANGED chainVars

\* ------------------------------------ executeBuyback (buyback.ts 66-136)

\* Value executeBuyback returns when hasGraduated() is true (line 73).
GraduatedReturn == "null"
\* Value executeBuyback returns on missing curve data and from its catch
\* block (lines 80, 134).
FailedReturn == "null"

\* executeBuyback returned ret to executeAutomaticBuyback, which returns
\* {claimedSol: totalBuybackAmount, buybackTx}. kind records which path of
\* executeBuyback produced ret.
BuybackReturnedFrom(r, kind, ret) ==
  [r EXCEPT !.bbKind = kind, !.buybackTx = ret, !.claimedSol = r.total,
            !.curveData = NullData, !.pc = "returned"]

BuybackReturned(c, kind, ret) ==
  cyc' = [cyc EXCEPT ![c] = BuybackReturnedFrom(cyc[c], kind, ret)]

\* const graduated = await this.pumpfun.hasGraduated()
BbHasGraduated(c) ==
  /\ cyc[c].pc = "bb_hasGraduated"
  /\ \E read \in CurveReads(curve) :
       IF hasGraduated(read)
         THEN BuybackReturned(c, "graduated", GraduatedReturn)
         ELSE cyc' = [cyc EXCEPT ![c].pc = "bb_getCurve"]
  /\ Frame /\ UNCHANGED chainVars

\* const curveData = await this.pumpfun.getBondingCurveData(): a second,
\* separate read of the curve account.
BbGetCurve(c) ==
  /\ cyc[c].pc = "bb_getCurve"
  /\ \E read \in CurveReads(curve) :
       IF getBondingCurveData(read).isNull
         THEN BuybackReturned(c, "curveError", FailedReturn)
         ELSE cyc' = [cyc EXCEPT ![c].curveData = getBondingCurveData(read),
                                 ![c].pc = "bb_ataLookup"]
  /\ Frame /\ UNCHANGED chainVars

\* WalletManager.sendTransaction: the blockhash read, the transmission and
\* the wait for confirmation; it returns a signature only for "confirmed"
\* and throws otherwise.
SendOutcomes == {"noBlockhash", "rejected", "unconfirmed", "confirmed"}
Transmitted(outcome) == outcome # "noBlockhash"

\* Whether an executeBuyback call has transmitted to a Migrated curve, after
\* a sendTransaction with the given outcome.
SentLate(late, outcome) == late \/ (Transmitted(outcome) /\ Migrated(curve))

\* The path on which executeBuyback returns after sendTransaction of the buy.
BuyKind(outcome) ==
  CASE outcome = "confirmed" -> "ok"
    [] outcome = "noBlockhash" -> "notSent"
    [] OTHER -> outcome

\* getOrCreateTokenAccount: connection.getAccountInfo(ata)
BbAtaLookup(c) ==
  /\ cyc[c].pc = "bb_ataLookup"
  /\ \E ok \in BOOLEAN :
       IF ~ok THEN BuybackReturned(c, "ataError", FailedReturn)
       ELSE cyc' = [cyc EXCEPT ![c].pc =
                      IF ataExists THEN "bb_send" ELSE "bb_ataCreate"]
  /\ Frame /\ UNCHANGED chainVars

\* A getOrCreateTokenAccount that does not wait for the outcome of the
\* create transaction, and goes on whatever it is.
BbAtaCreateNotAwaited(c) ==
  /\ cyc[c].pc = "bb_ataCreate"
  /\ \E outcome \in SendOutcomes :
       /\ outcome = "confirmed" => ~ataExists
       /\ cyc' = [cyc EXCEPT ![c].lateSend = SentLate(@, outcome),
                             ![c].ataCreated = (outcome = "confirmed"),
                             ![c].pc = "bb_send"]
       /\ ataExists' = (ataExists \/ outcome = "confirmed")
  /\ Frame /\ UNCHANGED <<balance, curve>>

\* getOrCreateTokenAccount: sendTransaction([createAtaInstruction]). The
\* chain executes the creation only of an account that does not exist.
BbAtaCreate(c) ==
  /\ cyc[c].pc = "bb_ataCreate"
  /\ \E outcome \in SendOutcomes :
       LET r == [cyc[c] EXCEPT !.lateSend = SentLate(@, outcome)]
       IN IF outcome = "confirmed"
            THEN /\ ~ataExists
                 /\ cyc' = [cyc EXCEPT ![c] = [r EXCEPT !.ataCreated = TRUE,
                                                        !.pc = "bb_send"]]
                 /\ ataExists' = TRUE
            ELSE /\ cyc' = [cyc EXCEPT ![c] =
                              BuybackReturnedFrom(r, "ataError", FailedReturn)]
                 /\ UNCHANGED ataExists
  /\ Frame /\ UNCHANGED <<balance, curve>>

\* The chain executes a buy of amount only on a live curve and from a
\* wallet that holds the amount.
CanBuy(amount) == curve = "active" /\ balance >= amount

\* Build the buy instruction and sendTransaction([buyInstruction]).
BbSend(c) ==
  /\ cyc[c].pc = "bb_send"
  /\ \E outcome \in SendOutcomes :
       /\ outcome = "confirmed" => CanBuy(cyc[c].total)
       /\ cyc' = [cyc EXCEPT ![c] = BuybackReturnedFrom(
            [cyc[c] EXCEPT !.lateSend = SentLate(@, outcome)],
            BuyKind(outcome),
            IF outcome = "confirmed" THEN "buySig" ELSE FailedReturn)]
       /\ balance' = IF outcome = "confirmed"
                       THEN balance - cyc[c].total ELSE balance
  /\ Frame /\ UNCHANGED <<curve, ataExists>>

\* ----------- the quote and the buy instruction (buyback.ts 84-85, 103-127)

\* The "/" of two BigInts: the quotient rounded towards zero.
BigIntDiv(a, b) ==
  LET abs(x) == IF x < 0 THEN -x ELSE x
      q == abs(a) \div abs(b)
  IN IF (a < 0) = (b < 0) THEN q ELSE -q

\* A quote whose product is kept in a fixed-width word (16 bits here).
calculateBuyAmountWrapped(solLamports, curveData) ==
  BigIntDiv((solLamports * curveData.virtualTokenReserves) % 65536,
            curveData.virtualSolReserves + solLamports)

\* PumpFunService.calculateBuyAmount, from solLamports (line 309) on.
calculateBuyAmount(solLamports, curveData) ==
  BigIntDiv(solLamports * curveData.virtualTokenReserves,
            curveData.virtualSolReserves + solLamports)

\* A minimum that is rounded up.
MinTokensRoundedUp(expectedTokens, slippageBps) ==
  BigIntDiv(expectedTokens * (10000 - slippageBps) + 9999, 10000)

\* executeBuyback line 85: minTokens.
MinTokens(expectedTokens, slippageBps) ==
  BigIntDiv(expectedTokens * (10000 - slippageBps), 10000)

\* The n low bytes of v, lowest first.
RECURSIVE LittleEndian(_, _)
LittleEndian(v, n) ==
  IF n = 0 THEN <<>> ELSE <<v % 256>> \o LittleEndian(v \div 256, n - 1)

\* Buffer.writeBigUInt64LE: the 8 bytes written. It throws a RangeError for
\* a value outside 0 .. 2^64 - 1; every value of the model is below 2^64.
InU64(v) == v >= 0
writeBigUInt64LE(v) == LittleEndian(v, 8)

\* Buffer.readBigUInt64LE: the value of 8 little-endian bytes.
RECURSIVE readBigUInt64LE(_)
readBigUInt64LE(bytes) ==
  IF bytes = <<>> THEN 0 ELSE Head(bytes) + 256 * readBigUInt64LE(Tail(bytes))

\* Buffer.alloc(n), and source.copy(target, offset) or a write at offset:
\* the bytes of the target from offset on are replaced.
Alloc(n) == [i \in 1..n |-> 0]
WriteAt(buffer, bytes, offset) ==
  [i \in 1..Len(buffer) |->
     IF i > offset /\ i <= offset + Len(bytes) THEN bytes[i - offset]
     ELSE buffer[i]]

\* Lines 98-100: the buy discriminator 66 06 3d 12 01 da eb ea.
BuyDiscriminator == <<102, 6, 61, 18, 1, 218, 235, 234>>

\* An instruction data with the two arguments in each other's place.
BuyInstructionDataSwapped(solLamports, minTokens) ==
  WriteAt(WriteAt(WriteAt(Alloc(8 + 8 + 8), BuyDiscriminator, 0),
                  writeBigUInt64LE(minTokens), 8),
          writeBigUInt64LE(solLamports), 16)

\* Lines 103-107: discriminator + amount + min_tokens.
BuyInstructionData(solLamports, minTokens) ==
  WriteAt(WriteAt(WriteAt(Alloc(8 + 8 + 8), BuyDiscriminator, 0),
                  writeBigUInt64LE(solLamports), 8),
          writeBigUInt64LE(minTokens), 16)

AccountMeta(pubkey, isSigner, isWritable) ==
  [pubkey |-> pubkey, isSigner |-> isSigner, isWritable |-> isWritable]

\* An account list in which the buyer's token account is read-only.
BuyKeysReadOnlyTokenAccount ==
  <<AccountMeta("GLOBAL_STATE", FALSE, FALSE),
    AccountMeta("FEE_ACCOUNT", FALSE, TRUE),
    AccountMeta("tokenMint", FALSE, FALSE),
    AccountMeta("bondingCurve", FALSE, TRUE),
    AccountMeta("bondingCurveTokenAccount", FALSE, TRUE),
    AccountMeta("userTokenAccount", FALSE, FALSE),
    AccountMeta("wallet", TRUE, TRUE),
    AccountMeta("SystemProgram", FALSE, FALSE),
    AccountMeta("TOKEN_PROGRAM_ID", FALSE, FALSE),
    AccountMeta("SysvarRent", FALSE, FALSE),
    AccountMeta("ASSOCIATED_TOKEN_PROGRAM_ID", FALSE, FALSE)>>

\* Lines 111-123: the keys of the buy instruction.
BuyKeys ==
  <<AccountMeta("GLOBAL_STATE", FALSE, FALSE),
    AccountMeta("FEE_ACCOUNT", FALSE, TRUE),
    AccountMeta("tokenMint", FALSE, FALSE),
    AccountMeta("bondingCurve", FALSE, TRUE),
    AccountMeta("bondingCurveTokenAccount", FALSE, TRUE),
    AccountMeta("userTokenAccount", FALSE, TRUE),
    AccountMeta("wallet", TRUE, TRUE),
    AccountMeta("SystemProgram", FALSE, FALSE),
    AccountMeta("TOKEN_PROGRAM_ID", FALSE, FALSE),
    AccountMeta("SysvarRent", FALSE, FALSE),
    AccountMeta("ASSOCIATED_TOKEN_PROGRAM_ID", FALSE, FALSE)>>

\* executeBuyback at line 84, with curveData read and the config loaded.
QuoteInputs ==
  [pc : {"quote"}, solIn : SolInValues, virtualTokenReserves : ReserveValues,
   virtualSolReserves : ReserveValues, slippageBps : SlippageValues,
   expectedTokens : {0}, minTokens : {0}, instruction : {NoQuote.instruction}]

InitQuote ==
  /\ BotInit
  /\ quote \in QuoteInputs
  /\ dec = NoDecode /\ dc = NoDirectClaim /\ env = NoEnv
  /\ tx = NoTx /\ blockhash = 1

QuoteFrame ==
  UNCHANGED <<minBuybackAmount, tx, blockhash, mainPc, started, cyc, stats,
                 chainVars, bt,
              dec, dc, env>>

\* Lines 84-85: expectedTokens and minTokens. A division by zero is a
\* RangeError, which the catch of executeBuyback turns into null.
QuoteCompute ==
  /\ quote.pc = "quote"
  /\ IF quote.virtualSolReserves + quote.solIn = 0
       THEN quote' = [quote EXCEPT !.pc = "failedQuote"]
       ELSE LET expectedTokens == calculateBuyAmount(quote.solIn, quote)
            IN quote' = [quote EXCEPT
                 !.expectedTokens = expectedTokens,
                 !.minTokens = MinTokens(expectedTokens, quote.slippageBps),
                 !.pc = "encode"]
  /\ QuoteFrame

\* Lines 103-125: the instruction data and the instruction. A value that
\* writeBigUInt64LE refuses ends executeBuyback in its catch.
QuoteEncode ==
  /\ quote.pc = "encode"
  /\ IF InU64(quote.solIn) /\ InU64(quote.minTokens)
       THEN quote' = [quote EXCEPT
              !.instruction =
                 [programId |-> "PROGRAM_ID", keys |-> BuyKeys,
                  data |-> BuyInstructionData(quote.solIn, quote.minTokens)],
              !.pc = "built"]
       ELSE quote' = [quote EXCEPT !.pc = "failedEncode"]
  /\ QuoteFrame

\* Line 127: the instruction is handed to WalletManager.sendTransaction.
QuoteSend ==
  /\ quote.pc = "built"
  /\ quote' = [quote EXCEPT !.pc = "sent"]
  /\ QuoteFrame

\* ------------------ the curve account's bytes (pumpfun.ts 268-303)

\* The account as the program lays it out (comment at lines 279-280):
\* discriminator(8), five u64 fields, complete(1).
CurveLayout(f, flagByte) ==
  <<23, 183, 248, 55, 96, 216, 172, 96>>
    \o writeBigUInt64LE(f.virtualTokenReserves)
    \o writeBigUInt64LE(f.virtualSolReserves)
    \o writeBigUInt64LE(f.realTokenReserves)
    \o writeBigUInt64LE(f.realSolReserves)
    \o writeBigUInt64LE(f.tokenTotalSupply)
    \o <<flagByte>>

\* Field values and flag bytes of the accounts read.
CurveFields ==
  [virtualTokenReserves : {107300, 1}, virtualSolReserves : {30, 2},
   realTokenReserves : {79310}, realSolReserves : {4},
   tokenTotalSupply : {1000000}]
FlagBytes == {0, 1, 2, 255}
\* Lengths of the accounts that are cut short.
ShortLengths == {0, 8, 15, 47, 48}

\* What getAccountInfo can give: a full account, one with more bytes after
\* the flag, one cut short, no account, an exception.
DecodeInputs ==
  LET of(f, b, bytes) ==
        [NoDecode EXCEPT !.pc = "read", !.kind = "data", !.data = bytes,
                         !.known = f, !.flag = b]
  IN UNION {
       {of(f, b, CurveLayout(f, b)), of(f, b, CurveLayout(f, b) \o <<1, 7>>)}
         \cup {of(f, b, SubSeq(CurveLayout(f, b), 1, n)) : n \in ShortLengths}
       : f \in CurveFields, b \in FlagBytes}
     \cup {[NoDecode EXCEPT !.pc = "read", !.kind = k] : k \in {"absent", "error"}}

\* Buffer.readBigUInt64LE(offset), readUInt8(offset): the read is inside the
\* buffer (else a RangeError), and its value.
InBuffer(data, offset, n) == offset + n <= Len(data)
ReadU64At(data, offset) ==
  readBigUInt64LE(SubSeq(data, offset + 1, offset + 8))
ReadU8At(data, offset) == data[offset + 1]

\* A decoder that takes every non-zero flag byte for true.
parseBondingCurveAnyFlag(info) ==
  IF info.kind # "data" THEN NullCurve
  ELSE IF ~(\A o \in {8, 16, 24, 32, 40} : InBuffer(info.data, o, 8))
          \/ ~InBuffer(info.data, 48, 1)
    THEN NullCurve
  ELSE [isNull |-> FALSE,
        virtualTokenReserves |-> ReadU64At(info.data, 8),
        virtualSolReserves |-> ReadU64At(info.data, 16),
        realTokenReserves |-> ReadU64At(info.data, 24),
        realSolReserves |-> ReadU64At(info.data, 32),
        tokenTotalSupply |-> ReadU64At(info.data, 40),
        complete |-> (ReadU8At(info.data, 48) # 0)]

\* getBondingCurveData on what getAccountInfo gave: null when the read
\* threw, when there is no account (line 273), and, through the catch at
\* line 299, when one of the reads at lines 284-289 is outside the buffer.
parseBondingCurve(info) ==
  IF info.kind # "data" THEN NullCurve
  ELSE IF ~(\A o \in {8, 16, 24, 32, 40} : InBuffer(info.data, o, 8))
          \/ ~InBuffer(info.data, 48, 1)
    THEN NullCurve
  ELSE [isNull |-> FALSE,
        virtualTokenReserves |-> ReadU64At(info.data, 8),
        virtualSolReserves |-> ReadU64At(info.data, 16),
        realTokenReserves |-> ReadU64At(info.data, 24),
        realSolReserves |-> ReadU64At(info.data, 32),
        tokenTotalSupply |-> ReadU64At(info.data, 40),
        complete |-> (ReadU8At(info.data, 48) = 1)]

InitDecode ==
  /\ BotInit
  /\ dec \in DecodeInputs
  /\ quote = NoQuote /\ dc = NoDirectClaim /\ env = NoEnv
  /\ tx = NoTx /\ blockhash = 1

\* One call of getBondingCurveData.
DecodeRead ==
  /\ dec.pc = "read"
  /\ dec' = [dec EXCEPT !.result = parseBondingCurve(dec), !.pc = "done"]
  /\ UNCHANGED <<minBuybackAmount, tx, blockhash, mainPc, started, cyc, stats,
                 chainVars, bt,
                 quote, dc, env>>

SpecDecode == InitDecode /\ [][DecodeRead]_vars

\* ------- the direct-construction service (part_001 219-287): claimFees

\* Lamports of the creator vault, and the rent-exempt minimum of an account
\* without data.
VaultBalances == {0, 890880, 1500000, 1890880, 50890880}
RentExemptValues == {890880}

\* getClaimableFees of this service: the vault's balance above the
\* rent-exempt minimum, 0 when a read throws.
DirectClaimable(vault, rentExempt, readsOk) ==
  IF readsOk THEN Max(0, vault - rentExempt) ELSE 0

\* Lines 262-264: the withdraw_creator_fees discriminator
\* 1a 5b 8c 4d 9e 2f 7a 3b.
ClaimDiscriminator == <<26, 91, 140, 77, 158, 47, 122, 59>>

\* An account list with the mint and the curve in each other's place.
ClaimKeysReordered ==
  <<AccountMeta("wallet", TRUE, TRUE),
    AccountMeta("bondingCurve", FALSE, TRUE),
    AccountMeta("tokenMint", FALSE, FALSE),
    AccountMeta("creatorVault", FALSE, TRUE),
    AccountMeta("SystemProgram", FALSE, FALSE)>>

\* Lines 268-274: the keys of the claim instruction.
ClaimKeys ==
  <<AccountMeta("wallet", TRUE, TRUE),
    AccountMeta("tokenMint", FALSE, FALSE),
    AccountMeta("bondingCurve", FALSE, TRUE),
    AccountMeta("creatorVault", FALSE, TRUE),
    AccountMeta("SystemProgram", FALSE, FALSE)>>

DirectClaimInputs ==
  {[NoDirectClaim EXCEPT !.pc = "getFees", !.vault = v, !.rentExempt = r] :
     v \in VaultBalances, r \in RentExemptValues}

InitDirectClaim ==
  /\ BotInit
  /\ dc \in DirectClaimInputs
  /\ quote = NoQuote /\ dec = NoDecode /\ env = NoEnv
  /\ tx = NoTx /\ blockhash = 1

DirectFrame ==
  UNCHANGED <<minBuybackAmount, tx, blockhash, mainPc, started, cyc, stats,
                 chainVars, bt,
              quote, dec, env>>

\* Lines 247-278: the estimate, the threshold, and the instruction, up to
\* the call of sendTransaction.
DirectClaimBuild ==
  /\ dc.pc = "getFees"
  /\ \E readsOk \in BOOLEAN :
       LET claimableSol == DirectClaimable(dc.vault, dc.rentExempt, readsOk)
       IN dc' = IF claimableSol < DirectClaimThreshold
                  THEN [dc EXCEPT !.claimable = claimableSol, !.pc = "done"]
                  ELSE [dc EXCEPT
                          !.claimable = claimableSol,
                          !.instruction =
                             [programId |-> "PROGRAM_ID", keys |-> ClaimKeys,
                              data |-> ClaimDiscriminator],
                          !.pc = "send"]
  /\ DirectFrame

\* Lines 280-286: sendTransaction([instruction]); the catch returns null.
DirectClaimSend ==
  /\ dc.pc = "send"
  /\ \E outcome \in SendOutcomes :
       dc' = [dc EXCEPT !.ret = IF outcome = "confirmed" THEN "claimSig"
                                                         ELSE "null",
                        !.pc = "done"]
  /\ DirectFrame

NextDirectClaim == DirectClaimBuild \/ DirectClaimSend

SpecDirectClaim == InitDirectClaim /\ [][NextDirectClaim]_vars

\* ------------- WalletManager.sendTransaction (part_001 76-110)

\* The calls looked at, and the blockhashes the chain goes through.
MaxSends == 3
MaxBlockhash == 3

\* The instruction lists the callers pass.
InstructionLists == {<<"createAta">>, <<"buy">>, <<"first", "second">>}

\* "for (const instruction of instructions) transaction.add(instruction)".
RECURSIVE AddAll(_, _)
AddAll(list, instructions) ==
  IF instructions = <<>> THEN list
  ELSE AddAll(Append(list, Head(instructions)), Tail(instructions))

\* Lines 80-93: the Transaction made by a call, before the blockhash.
Assembled(id, usePriorityFee, instructions) ==
  [id |-> id,
   instructions |->
     AddAll(IF usePriorityFee THEN <<"setComputeUnitPrice">> ELSE <<>>,
            instructions),
   recentBlockhash |-> 0]

InitSend ==
  /\ BotInit
  /\ \E p \in BOOLEAN : tx = [NoTx EXCEPT !.pc = "idle", !.usePriorityFee = p]
  /\ blockhash = 1
  /\ quote = NoQuote /\ dec = NoDecode /\ dc = NoDirectClaim /\ env = NoEnv

SendFrame ==
  UNCHANGED <<minBuybackAmount, mainPc, started, cyc, stats, chainVars, bt,
              quote, dec, dc, env>>

\* A caller calls sendTransaction: "new Transaction()", the priority fee,
\* the instructions, up to the await of getLatestBlockhash.
SendCall ==
  /\ tx.pc \in {"idle", "done"}
  /\ tx.calls < MaxSends
  /\ \E instructions \in InstructionLists :
       tx' = [tx EXCEPT
                !.calls = @ + 1,
                !.instructions = instructions,
                !.transaction =
                   Assembled(tx.calls + 1, tx.usePriorityFee, instructions),
                !.ret = "none",
                !.pc = "blockhash"]
  /\ UNCHANGED blockhash
  /\ SendFrame

\* A sendTransaction that signs with the blockhash of an earlier call when
\* there is one.
SendBlockhashCached ==
  /\ tx.pc = "blockhash"
  /\ \E ok \in BOOLEAN :
       IF ~ok
         THEN tx' = [tx EXCEPT !.ret = "threw", !.pc = "done"]
         ELSE LET used == IF tx.cached # 0 THEN tx.cached ELSE blockhash
                  signed == [tx.transaction EXCEPT !.recentBlockhash = used]
              IN tx' = [tx EXCEPT
                          !.transaction = signed,
                          !.cached = used,
                          !.log = Append(@, [transaction |-> signed,
                                             args |-> tx.instructions,
                                             latest |-> blockhash]),
                          !.pc = "confirm"]
  /\ UNCHANGED blockhash
  /\ SendFrame

\* Lines 96-107: getLatestBlockhash resolves (or throws, and so does the
\* call), recentBlockhash and feePayer are set, and sendAndConfirmTransaction
\* signs the transaction and transmits it.
SendBlockhash ==
  /\ tx.pc = "blockhash"
  /\ \E ok \in BOOLEAN :
       IF ~ok
         THEN tx' = [tx EXCEPT !.ret = "threw", !.pc = "done"]
         ELSE LET signed ==
                    [tx.transaction EXCEPT !.recentBlockhash = blockhash]
              IN tx' = [tx EXCEPT
                          !.transaction = signed,
                          !.cached = blockhash,
                          !.log = Append(@, [transaction |-> signed,
                                             args |-> tx.instructions,
                                             latest |-> blockhash]),
                          !.pc = "confirm"]
  /\ UNCHANGED blockhash
  /\ SendFrame

\* Lines 102-109: sendAndConfirmTransaction resolves with the signature of
\* a confirmed transaction or throws.
SendConfirm ==
  /\ tx.pc = "confirm"
  /\ \E outcome \in SendOutcomes \ {"noBlockhash"} :
       tx' = [tx EXCEPT
                !.ret = IF outcome = "confirmed" THEN "signature" ELSE "threw",
                !.pc = "done"]
  /\ UNCHANGED blockhash
  /\ SendFrame

\* The chain produces a block: there is a new latest blockhash.
NewBlock ==
  /\ blockhash < MaxBlockhash
  /\ blockhash' = blockhash + 1
  /\ UNCHANGED tx
  /\ SendFrame

NextSend == SendCall \/ SendBlockhash \/ SendConfirm \/ NewBlock

SpecSend == InitSend /\ [][NextSend]_vars

\* ------------------- startup (config.ts 39-70, index.ts 52-101)

Digits == {"0", "1", "2", "3", "4", "5", "6", "7", "8", "9"}

DigitOf(ch) ==
  CASE ch = "0" -> 0 [] ch = "1" -> 1 [] ch = "2" -> 2 [] ch = "3" -> 3
    [] ch = "4" -> 4 [] ch = "5" -> 5 [] ch = "6" -> 6 [] ch = "7" -> 7
    [] ch = "8" -> 8 [] ch = "9" -> 9

\* The length of the longest prefix of s made of digits.
RECURSIVE DigitRun(_)
DigitRun(s) ==
  IF s = <<>> \/ Head(s) \notin Digits THEN 0 ELSE 1 + DigitRun(Tail(s))

\* The value of a sequence of digits.
RECURSIVE DigitsValue(_)
DigitsValue(s) ==
  IF s = <<>> THEN 0
  ELSE DigitsValue(SubSeq(s, 1, Len(s) - 1)) * 10 + DigitOf(s[Len(s)])

RECURSIVE Pow10(_)
Pow10(n) == IF n = 0 THEN 1 ELSE 10 * Pow10(n - 1)

Sign(s) == IF s # <<>> /\ s[1] = "-" THEN -1 ELSE 1
Unsigned(s) == IF s # <<>> /\ s[1] \in {"-", "+"} THEN Tail(s) ELSE s

\* parseInt(s, 10): an optional sign and the longest run of digits after
\* it; what follows the digits is ignored, and no digit gives NaN.
ParseInt(s) ==
  LET body == Unsigned(s)
      n == DigitRun(body)
  IN IF n = 0 THEN NaN ELSE Num(Sign(s) * DigitsValue(SubSeq(body, 1, n)))

\* The lamports of the first nine digits after the point.
RECURSIVE FracLamports(_, _)
FracLamports(f, i) ==
  IF i > Len(f) \/ i > 9 THEN 0
  ELSE DigitOf(f[i]) * Pow10(9 - i) + FracLamports(f, i + 1)

\* parseFloat(s), in lamports: an optional sign, digits, and an optional
\* point with digits; what follows is ignored, and no digit gives NaN.
ParseFloat(s) ==
  LET body == Unsigned(s)
      n == DigitRun(body)
      rest == SubSeq(body, n + 1, Len(body))
      frac == IF rest # <<>> /\ rest[1] = "." THEN Tail(rest) ELSE <<>>
      m == DigitRun(frac)
  IN IF n = 0 /\ m = 0 THEN NaN
     ELSE Num(Sign(s) * (DigitsValue(SubSeq(body, 1, n)) * Pow10(9)
                         + FracLamports(SubSeq(frac, 1, m), 1)))

\* "process.env.X || d": an unset or empty variable gives the default.
OrDefault(raw, d) == IF raw = <<>> THEN d ELSE raw

\* Lines 47-58 of config.ts: what makes loadConfig throw.
loadConfigThrows(e) ==
  \/ ~e.rpcSet
  \/ e.key = "unset"
  \/ e.mint = "unset"
  \/ e.mint = "invalid"

\* Lines 60-69 of config.ts: the BotConfig returned.
loadConfig(e) ==
  [slippageBps |-> ParseInt(OrDefault(e.SLIPPAGE_BPS, <<"5", "0", "0">>)),
   minBuybackAmount |->
     ParseFloat(OrDefault(e.MIN_BUYBACK_AMOUNT, <<"0", ".", "0", "1">>))]

SlippageRaws ==
  {<<>>, <<"5", "0", "0">>, <<"3", "0", "0", "x">>, <<"2", "0", "0", "0", "0">>,
   <<"-", "5">>, <<"a", "b", "c">>}
MinBuybackRaws ==
  {<<>>, <<"0", ".", "0", "5">>, <<"0">>, <<"-", "1">>, <<"a", "b", "c">>}

EnvInputs ==
  {[NoEnv EXCEPT !.pc = "load", !.rpcSet = r, !.key = k, !.mint = m,
                 !.SLIPPAGE_BPS = sl, !.MIN_BUYBACK_AMOUNT = mb] :
     r \in BOOLEAN, k \in {"unset", "invalid", "valid"},
     m \in {"unset", "invalid", "valid"}, sl \in SlippageRaws,
     mb \in MinBuybackRaws}

InitStartup ==
  /\ BotInit
  /\ env \in EnvInputs
  /\ quote = NoQuote /\ dec = NoDecode /\ dc = NoDirectClaim
  /\ tx = NoTx /\ blockhash = 1

StartupFrame ==
  UNCHANGED <<minBuybackAmount, tx, blockhash, mainPc, started, cyc, stats,
                 chainVars, bt,
              quote, dec, dc>>

\* index.ts 57-64: loadConfig; a throw is logged and the process exits.
StartupLoadConfig ==
  /\ env.pc = "load"
  /\ env' = IF loadConfigThrows(env)
              THEN [env EXCEPT !.pc = "exited"]
              ELSE [env EXCEPT !.config = loadConfig(env), !.pc = "wallet"]
  /\ StartupFrame

\* index.ts 67-75: the WalletManager is built (wallet.ts 22-42 throws on a
\* key that is neither base58 nor a JSON array) and the balance is read;
\* a throw is logged and the process exits.
StartupWallet ==
  /\ env.pc = "wallet"
  /\ \E balanceRead \in BOOLEAN :
       env' = IF env.key = "valid" /\ balanceRead
                THEN [env EXCEPT !.pc = "graduation"]
                ELSE [env EXCEPT !.pc = "exited"]
  /\ StartupFrame

\* index.ts 78-101: the services are built, hasGraduated only warns, and
\* the initial cycle is called.
StartupGraduation ==
  /\ env.pc = "graduation"
  /\ env' = [env EXCEPT !.warned = (curve # "active"), !.pc = "firstCycle"]
  /\ StartupFrame

NextStartup == StartupLoadConfig \/ StartupWallet \/ StartupGraduation

SpecStartup == InitStartup /\ [][NextStartup]_vars

\* ------------------------------------- buyTokens (pumpfun.ts 197-263)
\* The relay buy is a public operation of PumpFunService; the cycle does not
\* call it, a caller of the service does.

BtFrame ==
  UNCHANGED <<minBuybackAmount, tx, blockhash, mainPc, started, cyc, stats, quote, dec, dc, env>>

BuyTokensCall ==
  /\ bt.pc = "idle"
  /\ bt.calls < MaxBuyCalls
  /\ \E solAmount \in BuyAmounts :
       bt' = [IdleBt EXCEPT !.pc = "post", !.calls = bt.calls + 1,
                            !.amount = solAmount]
  /\ BtFrame /\ UNCHANGED chainVars

\* axios.post to the relay; an error returns null.
BuyTokensPost ==
  /\ bt.pc = "post"
  /\ \E ok \in BOOLEAN :
       bt' = [bt EXCEPT !.pc = IF ok THEN "versioned" ELSE "done"]
  /\ BtFrame /\ UNCHANGED chainVars

\* Inner try block (lines 230-236).
BuyTokensVersioned ==
  /\ bt.pc = "versioned"
  /\ \E outcome \in SubmitOutcomes :
       bt' = [bt EXCEPT !.sub = Attempted(@, outcome, TRUE),
                        !.pc = AfterVersioned(outcome)]
  /\ BtFrame /\ UNCHANGED chainVars

\* Inner catch block (lines 237-245).
BuyTokensLegacy ==
  /\ bt.pc = "legacy"
  /\ \E outcome \in SubmitOutcomes :
       bt' = [bt EXCEPT !.sub = Attempted(@, outcome, FALSE),
                        !.pc = IF AfterLegacy(outcome) = "confirm"
                                 THEN "confirm" ELSE "done"]
  /\ BtFrame /\ UNCHANGED chainVars

\* confirmTransaction and the return of the signature (lines 247-253).
BuyTokensConfirm ==
  /\ bt.pc = "confirm"
  /\ \E outcome \in ConfirmOutcomes :
       /\ outcome = "ok" => CanBuy(bt.amount)
       /\ bt' = [bt EXCEPT !.ret = IF outcome = "throw" THEN "null" ELSE "buySig",
                            !.sub.conf = (outcome # "throw"),
                            !.pc = "done"]
       /\ balance' = IF outcome = "ok" THEN balance - bt.amount ELSE balance
  /\ BtFrame /\ UNCHANGED <<curve, ataExists>>

\* The caller has the result; the service can be called again.
BuyTokensReturn ==
  /\ bt.pc = "done"
  /\ bt' = [bt EXCEPT !.pc = "idle"]
  /\ BtFrame /\ UNCHANGED chainVars

\* ------------------------------------------------------------ the chain

\* Another party's trade completes the curve, or the migration removes the
\* curve account. Migrated is terminal.
CurveMigrates ==
  /\ curve = "active"
  /\ curve' \in {"complete", "absent"}
  /\ UNCHANGED <<minBuybackAmount, tx, blockhash, mainPc, started, cyc, stats, balance,
                 ataExists, bt, quote, dec, dc, env>>

\* ------------------------------------------------------ specifications

CycleStep(c) ==
  \/ GetBalance(c) \/ GetFees(c)
  \/ ClaimPost(c) \/ ClaimBalBefore(c) \/ ClaimVersioned(c) \/ ClaimLegacy(c)
  \/ ClaimConfirm(c) \/ ClaimBalAfter(c)
  \/ Sleep(c)
  \/ BbHasGraduated(c) \/ BbGetCurve(c) \/ BbAtaLookup(c) \/ BbAtaCreate(c)
  \/ BbSend(c)
  \/ runBuybackCycle(c) \/ runBuybackCycleCatch(c)

\* The bot: main, the cron schedule and the cycles it starts.
Next ==
  \/ StartInitialCycle
  \/ CronTick
  \/ \E c \in Slots : CycleStep(c)
  \/ CurveMigrates

Spec == Init /\ [][Next]_vars

\* A caller of the service's relay buy.
NextBuyTokens ==
  \/ BuyTokensCall \/ BuyTokensPost \/ BuyTokensVersioned \/ BuyTokensLegacy
  \/ BuyTokensConfirm \/ BuyTokensReturn
  \/ CurveMigrates

SpecBuyTokens == Init /\ [][NextBuyTokens]_vars

\* The three submit paths side by side: the initial cycle (claimFees, and
\* WalletManager.sendTransaction under executeBuyback) and a caller of the
\* relay buy, on one wallet.
NextSubmit ==
  \/ StartInitialCycle
  \/ CycleStep(1)
  \/ BuyTokensCall \/ BuyTokensPost \/ BuyTokensVersioned \/ BuyTokensLegacy
  \/ BuyTokensConfirm \/ BuyTokensReturn
  \/ CurveMigrates

SpecSubmit == Init /\ [][NextSubmit]_vars

\* The quote of one buy, for every input.
NextQuote == QuoteCompute \/ QuoteEncode \/ QuoteSend

SpecQuote == InitQuote /\ [][NextQuote]_vars

\* ------------------------------------------------------------- claims

\* Positions inside the claimFees call of a cycle.
ClaimPcs == {"cf_post", "cf_balBefore", "cf_versioned", "cf_legacy",
             "cf_confirm", "cf_balAfter"}
\* Positions inside the executeBuyback call of a cycle.
BuyPcs == {"bb_hasGraduated", "bb_getCurve", "bb_ataLookup", "bb_ataCreate",
           "bb_send"}

\* claimFees was called in cycle c and has returned claimTx.
ClaimDone(c) == cyc[c].claimCalled /\ cyc[c].pc \notin ClaimPcs
\* The settling delay of cycle c is over: step 4 has been taken.
Decided(c) == cyc[c].pc \in BuyPcs \cup {"returned"}
\* executeBuyback was called in cycle c.
BuyInvoked(c) == cyc[c].pc \in BuyPcs \/ cyc[c].bbKind # "none"

\* C1: a cycle whose fee estimate is the negative sentinel (estimate
\* unknown) still calls claimFees; the sentinel is not taken for "no fees".
C1_SentinelStillClaims ==
  \A c \in Slots : cyc[c].est = Sentinel => cyc[c].claimCalled

\* C2: after a successful claim the amount the cycle carries on with (to
\* the threshold check, to the buy path and into claimedSol) is the balance
\* delta that claimFees measured, whatever the estimate was.
C2_ClaimedIsBalanceDelta ==
  \A c \in Slots :
    (ClaimDone(c) /\ ~cyc[c].claimTx.isNull) =>
      /\ cyc[c].total = cyc[c].claimTx.amount
      /\ cyc[c].pc = "returned" => cyc[c].claimedSol = cyc[c].claimTx.amount

\* C3: the legacy attempt of a relay submission is never made after a
\* versioned transaction that was built and signed and then rejected by the
\* network.
C3_NoLegacyAfterRejection ==
  /\ \A c \in Slots : cyc[c].pc = "cf_legacy" => ~cyc[c].sub.vRejected
  /\ bt.pc = "legacy" => ~bt.sub.vRejected

\* C4: at most one buyback cycle is in flight at any time.
C4_NoOverlappingCycles == Cardinality(InFlight) <= 1

\* C5: no buy attempt transmits a transaction (the creation of the token
\* account included) at a moment the curve is Migrated: neither
\* executeBuyback nor the relay buy buyTokens.
C5_NoBuySubmittedWhenMigrated ==
  /\ \A c \in Slots : ~cyc[c].lateSend
  /\ ~Migrated(bt.sub.sentAt)

\* C6: no claim transaction is transmitted at a moment the token is
\* Migrated.
C6_NoClaimSubmittedWhenMigrated ==
  \A c \in Slots : ~Migrated(cyc[c].sub.sentAt)

\* C7: the value executeBuyback returns on its graduated path differs from
\* the value it returns when a buy was attempted and failed.
C7_GraduatedIsDistinct ==
  \A c \in Slots :
    cyc[c].bbKind = "graduated" => cyc[c].buybackTx # FailedReturn

\* C8: a cycle whose claimFees call returned null ends with
\* {claimedSol: 0, buybackTx: null} and never calls executeBuyback.
C8_NullClaimEndsCycle ==
  \A c \in Slots :
    (ClaimDone(c) /\ cyc[c].claimTx.isNull) =>
      /\ ~BuyInvoked(c)
      /\ cyc[c].pc = "returned"
      /\ cyc[c].claimedSol = 0
      /\ cyc[c].buybackTx = "null"

\* C9: a cycle whose claimed amount (the measured balance delta) is below
\* minBuybackAmount never calls executeBuyback and returns that amount as
\* claimedSol with buybackTx = null.
C9_BelowMinimumStops ==
  \A c \in Slots :
    (ClaimDone(c) /\ ~cyc[c].claimTx.isNull /\ Decided(c)
       /\ cyc[c].claimTx.amount < minBuybackAmount) =>
      /\ ~BuyInvoked(c)
      /\ cyc[c].claimedSol = cyc[c].claimTx.amount
      /\ cyc[c].buybackTx = "null"

\* C10: a cycle whose claimed amount (the measured balance delta) is at
\* least minBuybackAmount calls executeBuyback with that amount, and when
\* the buy is confirmed returns it as claimedSol with the buy's signature.
C10_AtMinimumBuysClaimed ==
  \A c \in Slots :
    (ClaimDone(c) /\ ~cyc[c].claimTx.isNull /\ Decided(c)
       /\ cyc[c].claimTx.amount >= minBuybackAmount) =>
      /\ BuyInvoked(c)
      /\ cyc[c].total = cyc[c].claimTx.amount
      /\ cyc[c].bbKind = "ok" =>
            /\ cyc[c].claimedSol = cyc[c].claimTx.amount
            /\ cyc[c].buybackTx = "buySig"

\* executeBuyback was called in cycle c and returned on one of the paths on
\* which a buy was attempted and failed.
BuyFailed(c) ==
  cyc[c].bbKind \in {"curveError", "ataError", "notSent", "rejected",
                     "unconfirmed"}

\* C11: when the buy fails after a successful claim the cycle has returned
\* (it did not throw and transmits nothing more) with buybackTx = null and
\* with the claimed amount, the measured balance delta, as claimedSol.
C11_BuyFailureKeepsClaimed ==
  \A c \in Slots :
    (~cyc[c].claimTx.isNull /\ BuyFailed(c)) =>
      /\ cyc[c].pc = "returned"
      /\ cyc[c].buybackTx = "null"
      /\ cyc[c].claimedSol = cyc[c].claimTx.amount


\* C12: in a cycle whose claim succeeded, step 4 and the buy path are entered
\* only from the settling delay, and the delay is entered only from the end
\* of claimFees, after the confirmation of the claim.
C12_DelayBeforeDecision ==
  [][\A c \in Slots :
       /\ (~cyc'[c].claimTx.isNull /\ Decided(c)' /\ ~Decided(c))
            => cyc[c].pc = "sleep"
       /\ (cyc'[c].pc = "sleep" /\ cyc[c].pc # "sleep")
            => cyc[c].pc = "cf_balAfter"]_vars

\* A cycle whose claim succeeded is on the buy path: its delay is over.
C12_Witness ==
  \E c \in Slots : ~cyc[c].claimTx.isNull /\ cyc[c].pc \in BuyPcs


\* C13: a submit path hands out a signature only once the wait for the
\* confirmation at 'confirmed' commitment has resolved: claimFees returns a
\* claim, buyTokens a signature, only with conf set, and executeBuyback
\* returns the signature of WalletManager.sendTransaction only on the path
\* of a confirmed transaction. A wait that fails gives null.
C13_SignatureOnlyAfterConfirmation ==
  [][/\ \A c \in Slots :
          (cyc[c].claimTx.isNull /\ ~cyc'[c].claimTx.isNull) => cyc[c].sub.conf
     /\ (bt.ret = "null" /\ bt'.ret # "null") => bt'.sub.conf
     /\ \A c \in Slots :
          (cyc[c].buybackTx = "null" /\ cyc'[c].buybackTx # "null")
             => cyc'[c].bbKind = "ok"]_vars

\* All three paths have returned a signature.
C13_Witness ==
  /\ bt.ret = "buySig"
  /\ \E c \in Slots : ~cyc[c].claimTx.isNull /\ cyc[c].buybackTx = "buySig"


\* C14: a rejection of a submitted transaction reaches the caller as an
\* outcome of its own: executeBuyback does not return for a rejected or
\* unconfirmed buy the value it returns for the non-error outcome of a
\* graduated token.
C14_RejectionIsNotSwallowed ==
  \A c \in Slots :
    cyc[c].bbKind \in {"rejected", "unconfirmed"}
      => cyc[c].buybackTx # GraduatedReturn


\* C15: an exception that reaches runBuybackCycle ends there: the step that
\* handles it leaves stats.totalClaimed as it was, frees the cycle's slot
\* and leaves main scheduled, so that the next tick can start a cycle.
C15_CycleErrorsAreCaught ==
  [][\A c \in Slots :
       (cyc[c].pc = "threw" /\ cyc'[c].pc # "threw") =>
         /\ stats'.totalClaimed = stats.totalClaimed
         /\ cyc'[c].pc = "idle"
         /\ mainPc' = "scheduled"]_vars

\* A cycle threw, nothing was counted as claimed, and a later cycle runs.
C15_Witness ==
  /\ stats.failedBuybacks > 0
  /\ stats.totalClaimed = 0
  /\ \E c \in Slots : cyc[c].pc = "getFees"


\* C16: no retry inside a cycle: the claim of a cycle is transmitted at most
\* once; after a transmission that failed no second one is made.
C16_ClaimTransmittedOnce ==
  \A c \in Slots : cyc[c].sub.sends <= 1


\* C17: the step that reads the fee estimate never ends the cycle with an
\* exception: the cycle goes on to claimFees or to step 4, and with the
\* sentinel as estimate it is past step 4 and, where it has returned without
\* a buy, has returned {claimedSol: 0, buybackTx: null}.
C17_EstimateErrorDoesNotAbort ==
  [][\A c \in Slots :
       (cyc[c].pc = "getFees" /\ cyc'[c] # cyc[c]) =>
         /\ cyc'[c].pc \in {"cf_post", "returned"} \cup BuyPcs
         /\ cyc'[c].est = Sentinel =>
              /\ Decided(c)'
              /\ cyc'[c].pc = "returned" =>
                   (cyc'[c].claimedSol = 0 /\ cyc'[c].buybackTx = "null")]_vars

\* A cycle whose estimate was the sentinel has returned its result.
C17_Witness ==
  \E c \in Slots : cyc[c].est = Sentinel /\ cyc[c].pc = "returned"


\* The quote was computed (lines 84-85 ran without an exception).
Quoted == quote.pc \in {"encode", "built", "sent", "failedEncode"}

\* C18: for every solIn and reserves with virtualSolReserves + solIn > 0 the
\* quote is exactly floor(solIn * virtualTokenReserves /
\* (virtualSolReserves + solIn)), and at most virtualTokenReserves.
C18_QuoteIsExactFloor ==
  Quoted =>
    /\ quote.expectedTokens =
         (quote.solIn * quote.virtualTokenReserves)
           \div (quote.virtualSolReserves + quote.solIn)
    /\ quote.expectedTokens <= quote.virtualTokenReserves

\* A quote whose product does not fit the 16-bit word of the wrapped quote.
C18_Witness ==
  /\ Quoted
  /\ quote.solIn * quote.virtualTokenReserves >= 65536
  /\ quote.expectedTokens > 0


\* C19: with slippageBps in 0 .. 9999 the minimum is exactly
\* floor(expectedTokens * (10000 - slippageBps) / 10000), between 0 and
\* expectedTokens, and it is the value the instruction data carries.
C19_MinTokensIsExactFloor ==
  (Quoted /\ quote.slippageBps \in 0..9999) =>
    LET floorMin ==
          (quote.expectedTokens * (10000 - quote.slippageBps)) \div 10000
    IN /\ quote.minTokens = floorMin
       /\ 0 <= quote.minTokens /\ quote.minTokens <= quote.expectedTokens
       /\ quote.pc # "failedEncode"
       /\ quote.pc \in {"built", "sent"} =>
            ReadU64At(quote.instruction.data, 16) = floorMin

\* An instruction was built with a minimum that the division rounded down.
C19_Witness ==
  /\ quote.pc = "sent"
  /\ quote.slippageBps \in 1..9999
  /\ (quote.expectedTokens * (10000 - quote.slippageBps)) % 10000 # 0
  /\ quote.minTokens > 255


\* C20: with slippageBps >= 10000 the quote fails at once: no minimum is
\* computed and no buy instruction is built or handed to sendTransaction.
C20_SlippageOutOfRangeFailsFast ==
  quote.slippageBps >= 10000 => ~Quoted


\* C21: an account whose data is shorter than the 49 bytes of the layout is
\* not decoded, and what getBondingCurveData returns for it differs from
\* what it returns when there is no account.
C21_MalformedIsNotAbsent ==
  (dec.pc = "done" /\ dec.kind = "data" /\ Len(dec.data) < 49) =>
    dec.result # parseBondingCurve([NoDecode EXCEPT !.kind = "absent"])

\* C22: for an account of at least 49 bytes the decoded fields are the
\* values the bytes were laid out from (little-endian u64 at offsets 8, 16,
\* 24, 32, 40, in the order of the layout), and complete is true exactly
\* when byte 48 is 1.
C22_DecodeRecoversFields ==
  (dec.pc = "done" /\ dec.kind = "data" /\ Len(dec.data) >= 49) =>
    /\ ~dec.result.isNull
    /\ \A field \in DOMAIN dec.known : dec.result[field] = dec.known[field]
    /\ dec.result.complete = (dec.flag = 1)
    /\ dec.result.complete = (dec.data[49] = 1)

\* A decoded account whose flag byte is neither 0 nor 1.
C22_Witness ==
  /\ dec.pc = "done" /\ dec.kind = "data" /\ Len(dec.data) >= 49
  /\ dec.flag = 255
  /\ dec.result.virtualTokenReserves = 107300
  /\ ~dec.result.complete


\* The buy instruction exists.
Built == quote.pc \in {"built", "sent"}

\* C23: the data of the buy instruction is 24 bytes: the buy discriminator
\* in bytes 0-7, then solLamports and then minTokens, each as 8 bytes whose
\* little-endian value is the argument.
C23_BuyPayloadLayout ==
  Built =>
    LET data == quote.instruction.data
    IN /\ Len(data) = 24
       /\ \A i \in 1..24 : data[i] \in 0..255
       /\ SubSeq(data, 1, 8) = <<102, 6, 61, 18, 1, 218, 235, 234>>
       /\ ReadU64At(data, 8) = quote.solIn
       /\ ReadU64At(data, 16) = quote.minTokens

\* An instruction whose two arguments differ and need more than one byte.
C23_Witness ==
  /\ quote.pc = "sent"
  /\ quote.solIn = 1000
  /\ quote.minTokens > 255
  /\ quote.minTokens # quote.solIn

\* C24: the keys of the buy instruction are these eleven, in this order:
\* global state (read-only), fee account (writable), mint (read-only),
\* curve (writable), curve token account (writable), buyer token account
\* (writable), buyer (signer, writable), system program, token program,
\* rent sysvar, associated token program (read-only); one signer, the buyer.
C24_BuyAccountList ==
  Built =>
    LET keys == quote.instruction.keys
    IN /\ [i \in 1..Len(keys) |-> keys[i].pubkey] =
            <<"GLOBAL_STATE", "FEE_ACCOUNT", "tokenMint", "bondingCurve",
              "bondingCurveTokenAccount", "userTokenAccount", "wallet",
              "SystemProgram", "TOKEN_PROGRAM_ID", "SysvarRent",
              "ASSOCIATED_TOKEN_PROGRAM_ID">>
       /\ {i \in 1..Len(keys) : keys[i].isWritable} = {2, 4, 5, 6, 7}
       /\ {i \in 1..Len(keys) : keys[i].isSigner} = {7}

\* A buy instruction was handed to sendTransaction.
C24_Witness ==
  quote.pc = "sent" /\ Len(quote.instruction.keys) = 11


\* C25: the claim instruction of the direct-construction service has the
\* 8 bytes of its discriminator as data and nothing more, and its keys are
\* claimer (signer, writable), mint (read-only), curve (writable), creator
\* vault (writable), system program (read-only), in this order.
C25_ClaimInstructionLayout ==
  dc.pc \in {"send", "done"} /\ dc.instruction.programId # "none" =>
    LET keys == dc.instruction.keys
    IN /\ dc.instruction.data = <<26, 91, 140, 77, 158, 47, 122, 59>>
       /\ Len(dc.instruction.data) = 8
       /\ [i \in 1..Len(keys) |-> keys[i].pubkey] =
            <<"wallet", "tokenMint", "bondingCurve", "creatorVault",
              "SystemProgram">>
       /\ {i \in 1..Len(keys) : keys[i].isWritable} = {1, 3, 4}
       /\ {i \in 1..Len(keys) : keys[i].isSigner} = {1}

\* A claim instruction was sent and confirmed.
C25_Witness ==
  dc.pc = "done" /\ dc.ret = "claimSig" /\ Len(dc.instruction.keys) = 5


\* C26: main reaches its initial cycle only with a configuration whose
\* required settings are present, whose mint is a valid public key, and
\* whose optional settings are numbers in range: slippageBps within
\* 0..10000 and minBuybackAmount not negative.
C26_InvalidSettingsRejectedAtStartup ==
  env.pc = "firstCycle" =>
    /\ env.rpcSet /\ env.key = "valid" /\ env.mint = "valid"
    /\ ~env.config.slippageBps.nan
    /\ env.config.slippageBps.v >= 0 /\ env.config.slippageBps.v <= 10000
    /\ ~env.config.minBuybackAmount.nan
    /\ env.config.minBuybackAmount.v >= 0


\* C27: executeBuyback builds and sends its buy instruction only from a
\* curve snapshot whose complete flag is false, whatever happens to the
\* curve between hasGraduated and getBondingCurveData.
C27_NoBuyFromCompleteSnapshot ==
  [][\A c \in Slots :
       (cyc[c].pc = "bb_send" /\ cyc'[c].pc = "returned") =>
         ~cyc[c].curveData.complete]_vars


\* C28: executeBuyback is called in a cycle only after claimFees was called
\* in that cycle and returned a confirmed claim, for every minBuybackAmount.
C28_BuyOnlyAfterConfirmedClaim ==
  \A c \in Slots :
    BuyInvoked(c) => (cyc[c].claimCalled /\ ~cyc[c].claimTx.isNull)


\* C29: in every state the number of buyback attempts is the number of
\* successful buybacks plus the number of failed ones.
C29_TotalIsSuccessfulPlusFailed ==
  stats.totalBuybacks = stats.successfulBuybacks + stats.failedBuybacks


\* C30: when runBuybackCycle takes the result of a cycle, it counts a failed
\* buyback only if executeBuyback was called in that cycle, and it counts
\* one (in failedBuybacks and in totalBuybacks) whenever the buy of that
\* cycle was attempted and failed, for every minBuybackAmount.
C30_FailedCountedIffBuyFailed ==
  [][\A c \in Slots :
       (cyc[c].pc = "returned" /\ cyc'[c].pc = "idle") =>
         /\ stats'.failedBuybacks # stats.failedBuybacks =>
              cyc[c].bbKind # "none"
         /\ BuyFailed(c) =>
              /\ stats'.failedBuybacks = stats.failedBuybacks + 1
              /\ stats'.totalBuybacks = stats.totalBuybacks + 1]_vars


C32_BuyOnlyAfterTokenAccount ==
  [][\A c \in Slots :
       /\ (cyc[c].pc = "bb_ataLookup" /\ cyc'[c].pc = "bb_ataCreate") =>
            ~ataExists
       /\ (cyc[c].pc = "bb_ataLookup" /\ cyc'[c].pc = "bb_send") =>
            (ataExists /\ cyc'[c] = [cyc[c] EXCEPT !.pc = "bb_send"])
       /\ (cyc[c].pc = "bb_ataCreate" /\ cyc'[c].pc = "bb_send") =>
            (cyc'[c].ataCreated /\ ataExists')
       /\ (cyc[c].pc = "bb_ataCreate" /\ cyc'[c].pc = "returned") =>
            /\ ~cyc'[c].ataCreated
            /\ cyc'[c].bbKind = "ataError"
            /\ cyc'[c].buybackTx = "null"
            /\ balance' = balance
       /\ (cyc[c].pc = "bb_send" /\ cyc'[c].pc = "returned") => ataExists
       /\ cyc'[c].bbKind \in {"ok", "notSent", "rejected", "unconfirmed"} =>
            cyc[c].pc \in {"bb_send", "returned"}]_vars

\* A buy was confirmed in a cycle whose getOrCreateTokenAccount had created
\* the token account.
C32_Witness ==
  \E c \in Slots :
    cyc[c].ataCreated /\ cyc[c].bbKind = "ok" /\ cyc[c].buybackTx = "buySig"


\* The instructions sendTransaction is to put into the transaction of a call
\* with the given argument.
ExpectedInstructions(args) ==
  (IF tx.usePriorityFee THEN <<"setComputeUnitPrice">> ELSE <<>>) \o args

\* C33: every call of sendTransaction makes a Transaction of its own; while
\* it waits for the blockhash the transaction already holds all its
\* instructions and no blockhash; the transaction is signed with the latest
\* blockhash of that moment, fetched by that call, never with the one of an
\* earlier call; and its instructions are the caller's in their order, after
\* the priority-fee instruction exactly when usePriorityFee is set.
C33_FreshTransactionAndBlockhash ==
  /\ tx.pc = "blockhash" =>
       /\ tx.transaction.recentBlockhash = 0
       /\ tx.transaction.instructions = ExpectedInstructions(tx.instructions)
       /\ \A i \in 1..Len(tx.log) : tx.log[i].transaction.id # tx.transaction.id
  /\ \A i \in 1..Len(tx.log) :
       /\ tx.log[i].transaction.recentBlockhash = tx.log[i].latest
       /\ tx.log[i].transaction.instructions =
            ExpectedInstructions(tx.log[i].args)
       /\ \A j \in 1..Len(tx.log) :
            j # i => tx.log[j].transaction.id # tx.log[i].transaction.id

\* Two calls have signed and transmitted, the second after the chain had
\* moved on, with the priority fee set and two instructions passed.
C33_Witness ==
  /\ Len(tx.log) >= 2
  /\ tx.log[2].latest > tx.log[1].latest
  /\ tx.usePriorityFee
  /\ Len(tx.log[2].args) = 2
  /\ tx.ret = "signature"

====
